---- MODULE Spec2Model ----
(***************************************************************************)
(* fastai/conv_learner.py: ConvnetBuilder (backbone + pooling adapter +    *)
(* fully-connected head, layer groups) and ConvLearner (loss/metric        *)
(* choice, precompute mode with on-disk activation caches, freeze and      *)
(* unfreeze).                                                              *)
(*                                                                         *)
(* Layers of top_model are numbered 1..NLayers; the head (fc_model) is the *)
(* single unit FcLayer.  A row of an activation cache is the id of the     *)
(* dataset whose image produced it (OldData for rows found on disk).       *)
(***************************************************************************)
EXTENDS Integers, Sequences, FiniteSets, TLC

\* ------------------------------------------------------------------ bounds
NLayers == 2        \* children of top_model (after the len(c)==3 unwrapping)
MaxRows == 2        \* largest dataset split / largest cache found on disk
NData   == 2        \* distinct datasets handed to the learner
MaxFc   == 2        \* longest xtra_fc list

FcLayer == NLayers + 1
AllLayers == 1..FcLayer
OldData == NData + 1    \* the id of a dataset of an earlier run

\* ------------------------------------------------------- ConvnetBuilder head
\* A dropout probability is 0 (0.0, falsy) or 1 (any p > 0); a hidden width is 512.
\* dropout_percs is None, a scalar or a list; xtra_fc is None or a list.
DefaultDropout == <<1, 1>>      \* [0.25, 0.5]
DefaultXtraFc == <<512>>

\* create_fc_layer: BatchNorm1d, Dropout if p, Linear, actn if any
create_fc_layer(p, actn) ==
    <<"BatchNorm1d">> \o (IF p # 0 THEN <<"Dropout">> ELSE <<>>)
      \o <<"Linear">> \o (IF actn # "None" THEN <<actn>> ELSE <<>>)

\* __init__: xtra_fc defaults to [512]
norm_xtra_fc(xf) == IF xf.kind = "None" THEN DefaultXtraFc ELSE xf.v

\* __init__: dropout_percs defaults to [0.25, 0.5]; a scalar is repeated n_fc times
norm_dropout(dp, xtra_fc) ==
    IF dp.kind = "None" THEN DefaultDropout
    ELSE IF dp.kind = "list" THEN dp.v
    ELSE [i \in 1..(Len(xtra_fc) + 1) |-> dp.v]

final_actn_multi_first(is_multi, is_reg) ==
    IF is_multi THEN "Sigmoid" ELSE IF is_reg THEN "None" ELSE "LogSoftmax"

\* get_fc_layers: the final activation
final_actn(is_multi, is_reg) ==
    LET a0 == IF is_multi THEN "Sigmoid" ELSE "LogSoftmax"
    IN IF is_reg THEN "None" ELSE a0

RECURSIVE hidden_blocks(_, _, _)
\* get_fc_layers: the loop over xtra_fc, from entry i on, one block per entry
hidden_blocks(xtra_fc, dps, i) ==
    IF i > Len(xtra_fc) THEN <<>>
    ELSE <<create_fc_layer(dps[i], "ReLU")>> \o hidden_blocks(xtra_fc, dps, i + 1)

\* get_fc_layers, block by block (res is the concatenation of the blocks)
get_fc_blocks(xtra_fc, dps, is_multi, is_reg) ==
    hidden_blocks(xtra_fc, dps, 1)
      \o <<create_fc_layer(dps[Len(dps)], final_actn(is_multi, is_reg))>>

RECURSIVE concat(_)
concat(blocks) == IF blocks = <<>> THEN <<>> ELSE Head(blocks) \o concat(Tail(blocks))

\* get_fc_layers
get_fc_layers(xtra_fc, dps, is_multi, is_reg) ==
    concat(get_fc_blocks(xtra_fc, dps, is_multi, is_reg))

\* ------------------------------------------------------------- layer groups
\* Python's seq[n:] for any integer n
PySliceFrom(s, n) ==
    LET len == Len(s)
        st  == IF n < 0 THEN (IF len + n < 0 THEN 0 ELSE len + n)
                        ELSE (IF n > len THEN len ELSE n)
    IN SubSeq(s, st + 1, len)

\* split_by_idxs(c, [lr_cut]) yields c[:lr_cut] and c[lr_cut:]
split_by_idxs(c, lr_cut) ==
    <<SubSeq(c, 1, IF lr_cut > Len(c) THEN Len(c) ELSE lr_cut), PySliceFrom(c, lr_cut)>>

top_children == [i \in 1..NLayers |-> i]

Builder_get_layer_groups_unsplit(m, do_fc) ==
    IF do_fc THEN <<<<FcLayer>>>>
    ELSE <<top_children, <<FcLayer>>>>

\* ConvnetBuilder.get_layer_groups
Builder_get_layer_groups(m, do_fc) ==
    IF do_fc THEN <<<<FcLayer>>>>
    ELSE split_by_idxs(top_children, m.lr_cut) \o <<<<FcLayer>>>>

\* ConvLearner.get_layer_groups
get_layer_groups(m, pre) == Builder_get_layer_groups(m, pre)

InGroup(g, l) == \E i \in 1..Len(g) : g[i] = l
InGroups(gs, l) == \E k \in 1..Len(gs) : InGroup(gs[k], l)

\* set_trainable applied to every group of gs
set_trainable(tr, gs, b) == [l \in AllLayers |-> IF InGroups(gs, l) THEN b ELSE tr[l]]

\* Learner.freeze_to(n): all groups off, then groups[n:] on
freeze_to(tr, m, pre, n) ==
    LET c == get_layer_groups(m, pre)
    IN set_trainable(set_trainable(tr, c, FALSE), PySliceFrom(c, n), TRUE)

\* ------------------------------------------------------------------- state
VARIABLES
    builder,      \* the ConvnetBuilder head: its arguments and get_fc_layers, by block
    phase,        \* "new" before ConvLearner.__init__, "ready" after
    models,       \* the builder fields the learner reads: lr_cut
    data_,        \* Learner.data_ : the raw dataset
    precompute,   \* ConvLearner.precompute
    trainable,    \* trainable flag of every layer of models.model
    fc_data,      \* ConvLearner.fc_data (NoFc until save_fc1 has run)
    disk,         \* the three bcolz directories x_act / x_act_val / x_act_test
    crit,         \* Learner.crit
    metrics,      \* Learner.metrics
    kw_metrics,   \* the metrics keyword ConvLearner.__init__ was called with
    log,          \* the operation just executed and the calls it made, in order
    fc1           \* what the save_fc1 of the operation just executed saw and did

vars == <<builder, phase, models, data_, precompute, trainable, fc_data, disk,
          crit, metrics, kw_metrics, log, fc1>>

learner_vars == <<phase, models, data_, precompute, trainable, fc_data, disk,
                  crit, metrics, kw_metrics, log, fc1>>

\* --------------------------------------------------------------- data model
Splits == 1..3      \* index into self.activations: train, validation, test

\* a data object; test = 0 stands for "no test loader" (test_dl is falsy);
\* cached tells an ImageClassifierData.from_arrays over activations from a raw one
DataObject(ids, trns, vals, tests, multis, regs) ==
    [id : ids, trn : trns, val : vals, test : tests,
     is_multi : multis, is_reg : regs, cached : {FALSE}]

NoData == [id |-> OldData, trn |-> 0, val |-> 0, test |-> 0,
           is_multi |-> FALSE, is_reg |-> FALSE, cached |-> FALSE]

ds_len(d, i) == IF i = 1 THEN d.trn ELSE IF i = 2 THEN d.val ELSE d.test

rows(n, tag) == [k \in 1..n |-> tag]

NoArr == [i \in Splits |-> <<>>]
NoDisk == [exists |-> FALSE, arr |-> NoArr]

\* what an earlier run may have left under tmp_path for this model name and size
StaleDisks(R) ==
    {[exists |-> TRUE, arr |-> [i \in Splits |-> rows(f[i], OldData)]] :
        f \in [Splits -> R]}

NoFc == [set |-> FALSE, d |-> NoData, src |-> NoData, arr |-> NoArr]
NoFc1 == [ran |-> FALSE, pre |-> FALSE, seen |-> <<0, 0, 0>>, computed |-> {}]

\* ------------------------------------------------------------- properties
\* ConvLearner.model: the layers of the active model
model(pre) == IF pre THEN {FcLayer} ELSE AllLayers

\* ConvLearner.data
data(pre, raw, fc) == IF pre THEN fc.d ELSE raw

\* ------------------------------------------------------ activation caching
\* create_empty_bcolz: a 0-row carray, written over whatever was there
create_empty_bcolz == <<>>

\* get_activations: open the three arrays if the first exists, else create them
get_activations(dk, force) ==
    IF dk.exists /\ ~force THEN dk.arr
    ELSE [i \in Splits |-> create_empty_bcolz]

\* predict_to_bcolz: arr ends up holding one row per item of the loader
predict_to_bcolz(d, i, arr) == rows(ds_len(d, i), d.id)

needs_predict_no_loader_check(d, acts, i) ==
    Len(acts[i]) # ds_len(d, i)

needs_predict_if_empty(d, acts, i) ==
    /\ Len(acts[i]) = 0
    /\ (i = 3 => d.test # 0)

\* the three conditions of save_fc1
needs_predict(d, acts, i) ==
    /\ Len(acts[i]) # ds_len(d, i)
    /\ (i = 3 => d.test # 0)

\* ImageClassifierData.from_arrays over the activations, with self.data's labels
from_arrays(d, acts) ==
    [id |-> d.id, trn |-> Len(acts[1]), val |-> Len(acts[2]),
     test |-> IF d.test # 0 THEN Len(acts[3]) ELSE 0,
     is_multi |-> d.is_multi, is_reg |-> d.is_reg, cached |-> TRUE]

\* A learner in the middle of an operation: the fields its steps read and write
\*   tr = trainable, pre = precompute, fc = fc_data, dk = disk, raw = data_
step_log(s, name) == [s EXCEPT !.log = Append(s.log, name)]

\* save_fc1
save_fc1(s) ==
    LET d     == data(s.pre, s.raw, s.fc)
        acts0 == get_activations(s.dk, FALSE)
        todo  == {i \in Splits : needs_predict(d, acts0, i)}
        acts1 == [i \in Splits |->
                    IF i \in todo THEN predict_to_bcolz(d, i, acts0[i]) ELSE acts0[i]]
    IN [step_log(s, "save_fc1") EXCEPT
          !.dk = [exists |-> TRUE, arr |-> acts1],
          !.fc = [set |-> TRUE, d |-> from_arrays(d, acts1), src |-> d, arr |-> acts1],
          !.fc1 = [ran |-> TRUE, pre |-> s.pre,
                   seen |-> [i \in Splits |-> Len(acts0[i])], computed |-> todo]]

freeze_first_group_only(s, m) ==
    [step_log(s, "freeze") EXCEPT !.tr = freeze_to(s.tr, m, s.pre, 1)]

\* freeze: freeze_to(-1)
freeze(s, m) ==
    [step_log(s, "freeze") EXCEPT !.tr = freeze_to(s.tr, m, s.pre, -1)]

unfreeze_keeps_precompute(s, m) ==
    [step_log(s, "unfreeze") EXCEPT !.tr = freeze_to(s.tr, m, s.pre, 0)]

\* unfreeze: freeze_to(0), then precompute = False
unfreeze(s, m) ==
    [step_log(s, "unfreeze") EXCEPT !.tr = freeze_to(s.tr, m, s.pre, 0), !.pre = FALSE]

\* the learner as an operation op finds it
self(op) ==
    [tr |-> trainable, pre |-> precompute, fc |-> fc_data, dk |-> disk, raw |-> data_,
     fc1 |-> NoFc1, log |-> <<op>>]

\* the learner as an operation leaves it
Becomes(s) ==
    /\ trainable' = s.tr
    /\ precompute' = s.pre
    /\ fc_data' = s.fc
    /\ disk' = s.dk
    /\ data_' = s.raw
    /\ fc1' = s.fc1
    /\ log' = s.log

\* --------------------------------------------------------------- operations
choose_crit_multi_first(d) ==
    IF d.is_multi THEN "binary_cross_entropy"
    ELSE IF d.is_reg THEN "l1_loss" ELSE "nll_loss"

\* __init__: the loss, by task type
choose_crit(d) ==
    LET c0 == IF d.is_multi THEN "binary_cross_entropy" ELSE "nll_loss"
    IN IF d.is_reg THEN "l1_loss" ELSE c0

\* __init__: the metrics, given the metrics keyword Learner.__init__ stored
choose_metrics(d, given) ==
    IF d.is_reg THEN given
    ELSE IF given = "None" THEN (IF d.is_multi THEN "accuracy_thresh" ELSE "accuracy")
    ELSE given

ConvLearner_init_always_caches(d, pc, given) ==
    /\ phase = "new"
    /\ phase' = "ready"
    /\ kw_metrics' = given
    /\ crit' = choose_crit(d)
    /\ metrics' = choose_metrics(data(FALSE, d, fc_data), given)
    /\ LET s0 == [self("__init__") EXCEPT !.pre = FALSE, !.raw = d]
           s2 == freeze(save_fc1(s0), models)
       IN Becomes([s2 EXCEPT !.pre = pc])
    /\ UNCHANGED <<builder, models>>

\* ConvLearner.__init__(data, models, precompute, metrics=given)
ConvLearner_init(d, pc, given) ==
    /\ phase = "new"
    /\ phase' = "ready"
    /\ kw_metrics' = given
    /\ crit' = choose_crit(d)
    /\ metrics' = choose_metrics(data(FALSE, d, fc_data), given)
    /\ LET s0 == [self("__init__") EXCEPT !.pre = FALSE, !.raw = d]
           s1 == IF pc THEN save_fc1(s0) ELSE s0
           s2 == freeze(s1, models)
       IN Becomes([s2 EXCEPT !.pre = pc])
    /\ UNCHANGED <<builder, models>>

\* ConvLearner.freeze()
Freeze ==
    /\ phase = "ready"
    /\ Becomes(freeze([self("freeze") EXCEPT !.log = <<>>], models))
    /\ UNCHANGED <<builder, phase, models, crit, metrics, kw_metrics>>

\* ConvLearner.unfreeze()
Unfreeze ==
    /\ phase = "ready"
    /\ Becomes(unfreeze([self("unfreeze") EXCEPT !.log = <<>>], models))
    /\ UNCHANGED <<builder, phase, models, crit, metrics, kw_metrics>>

\* ConvLearner.set_data(data, precompute)
set_data(d, pc) ==
    /\ phase = "ready"
    /\ LET s0 == [self("set_data") EXCEPT !.raw = d]
       IN IF pc
          THEN LET s3 == freeze(save_fc1(unfreeze(s0, models)), models)
               IN Becomes([s3 EXCEPT !.pre = TRUE])
          ELSE Becomes(freeze(s0, models))
    /\ UNCHANGED <<builder, phase, models, crit, metrics, kw_metrics>>

\* ConvLearner.summary(): precompute is switched off around Learner.summary, then restored
summary ==
    /\ phase = "ready"
    /\ LET temp == precompute
           s0   == [self("summary") EXCEPT !.pre = FALSE]
       IN Becomes([s0 EXCEPT !.pre = temp])
    /\ UNCHANGED <<builder, phase, models, crit, metrics, kw_metrics>>

\* set_data is handed data of the learner's own task type
SameTask(d) == d.is_multi = data_.is_multi /\ d.is_reg = data_.is_reg

LearnerInit(cuts, disks) ==
    /\ builder = [built |-> FALSE]
    /\ phase = "new"
    /\ models \in [lr_cut : cuts]
    /\ data_ = NoData
    /\ precompute = FALSE
    /\ trainable = [l \in AllLayers |-> TRUE]
    /\ fc_data = NoFc
    /\ disk \in disks
    /\ crit = "None"
    /\ metrics = "None"
    /\ kw_metrics = "None"
    /\ log = <<>>
    /\ fc1 = NoFc1

LearnerNext(DS, MS) ==
    \/ \E d \in DS, pc \in BOOLEAN, given \in MS : ConvLearner_init(d, pc, given)
    \/ Freeze
    \/ Unfreeze
    \/ \E d \in DS, pc \in BOOLEAN : SameTask(d) /\ set_data(d, pc)
    \/ summary

\* Modes: single-label datasets whose train split either matches the rows an
\* earlier run left on disk or does not, with and without a test set
Datasets == DataObject(1..NData, 1..MaxRows, {MaxRows}, {0, MaxRows}, {FALSE}, {FALSE})
Init == LearnerInit(0..NLayers, {NoDisk} \cup StaleDisks({MaxRows}))
Next == LearnerNext(Datasets, {"None"})
Spec == Init /\ [][Next]_vars

\* Tasks: datasets of every task type, with and without metrics from the caller
TaskDatasets == DataObject(1..NData, {MaxRows}, {MaxRows}, {0}, BOOLEAN, BOOLEAN)
InitTask == LearnerInit({NLayers}, {NoDisk})
NextTask == LearnerNext(TaskDatasets, {"None", "custom"})
SpecTask == InitTask /\ [][NextTask]_vars

\* Caching: one single-label dataset in every size (as after a resize or an added
\* test set), over every earlier disk state, for a backbone with one lr_cut
CacheDatasets == DataObject({1}, 1..MaxRows, 1..MaxRows, 0..MaxRows, {FALSE}, {FALSE})
InitCache == LearnerInit({NLayers}, {NoDisk} \cup StaleDisks(0..MaxRows))
NextCache == LearnerNext(CacheDatasets, {"None"})
SpecCache == InitCache /\ [][NextCache]_vars

\* ------------------------------------------------------------ the builder
RECURSIVE SeqsUpTo(_, _)
\* the sequences over S of length at most n
SeqsUpTo(S, n) ==
    IF n = 0 THEN {<<>>}
    ELSE LET shorter == SeqsUpTo(S, n - 1)
         IN shorter \cup {Append(q, x) : q \in shorter, x \in S}

XtraFcArgs ==
    {[kind |-> "None", v |-> <<>>]} \cup {[kind |-> "list", v |-> q] : q \in SeqsUpTo({512}, MaxFc)}

DropoutArgs ==
    {[kind |-> "None", v |-> 0]} \cup {[kind |-> "scalar", v |-> p] : p \in {0, 1}}
      \cup {[kind |-> "list", v |-> q] : q \in SeqsUpTo({0, 1}, MaxFc + 1) \ {<<>>}}

\* dropout_percs[i] exists for every hidden layer (and [-1] for the last one)
EnoughDropout(dp, xf) ==
    LET x == norm_xtra_fc(xf)
    IN Len(norm_dropout(dp, x)) >= Len(x)

\* ConvnetBuilder.__init__: the head
ConvnetBuilder_init(is_multi, is_reg, dp, xf) ==
    /\ EnoughDropout(dp, xf)
    /\ LET xtra_fc == norm_xtra_fc(xf)
           dps     == norm_dropout(dp, xtra_fc)
           layers  == get_fc_layers(xtra_fc, dps, is_multi, is_reg)
       IN builder' = [built |-> TRUE, is_multi |-> is_multi, is_reg |-> is_reg,
                      xtra_fc |-> xtra_fc, dropout_percs |-> dps,
                      blocks |-> get_fc_blocks(xtra_fc, dps, is_multi, is_reg),
                      fc_layers |-> layers, n_fc |-> Len(layers)]
    /\ UNCHANGED learner_vars

InitBuilder == LearnerInit({0}, {NoDisk})
NextBuilder ==
    \E is_multi \in BOOLEAN, is_reg \in BOOLEAN, dp \in DropoutArgs, xf \in XtraFcArgs :
        ConvnetBuilder_init(is_multi, is_reg, dp, xf)
SpecBuilder == InitBuilder /\ [][NextBuilder]_vars

\* ------------------------------------------------------------------ claims
Op == IF log = <<>> THEN "none" ELSE Head(log)
LastCall == IF log = <<>> THEN "none" ELSE log[Len(log)]
Called(name) == \E i \in 1..Len(log) : log[i] = name
Before(a, b) == \E i, j \in 1..Len(log) : i < j /\ log[i] = a /\ log[j] = b
Backbone == 1..NLayers

\* C1: after unfreeze() returns, every layer group of the full model (the backbone
\* groups and the head) is trainable and precompute is False.
C1_UnfreezeMakesAllTrainable ==
    Op = "unfreeze" => (\A l \in AllLayers : trainable[l]) /\ ~precompute

\* C2: after freeze() returns, every layer group but the last is untrainable and
\* the last one, the head, is trainable.
C2_FreezeLeavesOnlyHead ==
    LastCall = "freeze" => (\A l \in Backbone : ~trainable[l]) /\ trainable[FcLayer]

C2_Witness ==
    Op = "freeze" /\ precompute /\ models.lr_cut > 0 /\ models.lr_cut < NLayers

\* C3: precompute alone selects the active model, the active data and the layer
\* groups: head, fc_data and the single head group when True; full model, raw
\* dataset and the backbone split at lr_cut followed by the head when False.
C3_PrecomputeSelects ==
    phase = "ready" =>
        LET gs == get_layer_groups(models, precompute)
            d  == data(precompute, data_, fc_data)
        IN IF precompute
           THEN /\ model(precompute) = {FcLayer}
                /\ fc_data.set /\ d = fc_data.d /\ d.cached
                /\ gs = << <<FcLayer>> >>
           ELSE /\ model(precompute) = Backbone \cup {FcLayer}
                /\ d = data_ /\ ~d.cached
                /\ Len(gs) = 3
                /\ Len(gs[1]) = models.lr_cut
                /\ gs[1] \o gs[2] = [i \in 1..NLayers |-> i]
                /\ gs[3] = <<FcLayer>>

C3_Witness ==
    /\ Op = "set_data" /\ precompute
    /\ models.lr_cut > 0 /\ models.lr_cut < NLayers

C3_WitnessRaw ==
    /\ Op = "unfreeze" /\ fc_data.set
    /\ models.lr_cut > 0 /\ models.lr_cut < NLayers

\* C4 as stated: in construction the freeze step comes before the caching step
\* (save_fc1), and caching happens only when precompute was requested.
C4_FreezeBeforeCaching ==
    Op = "__init__" =>
        /\ Called("freeze")
        /\ (Called("save_fc1") <=> precompute)
        /\ (Called("save_fc1") => Before("freeze", "save_fc1"))

\* C4 amended: in construction the caching step (save_fc1) happens only when
\* precompute was requested, and it comes before the freeze step.
C4_CachingBeforeFreeze ==
    Op = "__init__" =>
        /\ Called("freeze")
        /\ (Called("save_fc1") <=> precompute)
        /\ (Called("save_fc1") =>
              Before("save_fc1", "freeze") /\ ~Before("freeze", "save_fc1"))

C4_Witness == Op = "__init__" /\ Called("save_fc1") /\ precompute

\* C5: save_fc1 runs the backbone over a split only if that split's cache differs
\* in row count from the split's dataset, never over the test split without a test
\* loader, and a save_fc1 on the data the previous save_fc1 saw computes nothing.
C5_ComputesOnlyOnMismatch ==
    /\ [](fc1.ran =>
            \A i \in fc1.computed :
                /\ fc1.seen[i] # ds_len(data_, i)
                /\ (i = 3 => data_.test # 0))
    /\ [][(fc1'.ran /\ fc_data.set /\ fc_data.src = data_') => fc1'.computed = {}]_vars

C5_Witness ==
    /\ fc1.ran /\ fc1.computed = {2}
    /\ fc1.seen[1] = data_.trn /\ fc1.seen[3] # 0 /\ data_.test = 0

C5_WitnessSecondRun ==
    fc1.ran /\ fc1.computed = {} /\ \A i \in Splits : disk.arr[i] = rows(ds_len(data_, i), data_.id)

\* C6: the head's final activation is none when is_reg, Sigmoid when is_multi and
\* not is_reg, LogSoftmax when neither; every hidden block ends in ReLU.
C6_FinalActivationByTask ==
    builder.built =>
        LET n    == Len(builder.blocks)
            last == builder.blocks[n]
            end  == last[Len(last)]
        IN /\ n = Len(builder.xtra_fc) + 1
           /\ builder.is_reg => end = "Linear"
           /\ (builder.is_multi /\ ~builder.is_reg) => end = "Sigmoid"
           /\ (~builder.is_multi /\ ~builder.is_reg) => end = "LogSoftmax"
           /\ \A k \in 1..(n - 1) : builder.blocks[k][Len(builder.blocks[k])] = "ReLU"
           /\ builder.fc_layers[Len(builder.fc_layers)] = end

C6_Witness ==
    /\ builder.built /\ builder.is_reg /\ builder.is_multi
    /\ Len(builder.xtra_fc) = MaxFc

\* C7: construction picks L1 loss whenever is_reg, else binary cross-entropy for
\* multi-label and NLL otherwise; default metrics are installed only when the task
\* is not regression and none were supplied; supplied metrics are never replaced.
C7_LossAndMetricsByTask ==
    /\ Op = "__init__" =>
          /\ data_.is_reg => crit = "l1_loss"
          /\ (~data_.is_reg /\ data_.is_multi) => crit = "binary_cross_entropy"
          /\ (~data_.is_reg /\ ~data_.is_multi) => crit = "nll_loss"
          /\ (kw_metrics = "None" /\ data_.is_reg) => metrics = "None"
          /\ (kw_metrics = "None" /\ ~data_.is_reg /\ data_.is_multi) =>
                metrics = "accuracy_thresh"
          /\ (kw_metrics = "None" /\ ~data_.is_reg /\ ~data_.is_multi) =>
                metrics = "accuracy"
    /\ (phase = "ready" /\ kw_metrics # "None") => metrics = kw_metrics

C7_Witness ==
    /\ Op = "__init__" /\ data_.is_reg /\ data_.is_multi
    /\ crit = "l1_loss" /\ kw_metrics = "None"

\* C8: after save_fc1 returns, every cache in use (train, validation, and test when
\* there is a test loader) has as many rows as its dataset, whatever was on disk.
C8_CachesMatchDatasets ==
    fc1.ran =>
        \A i \in Splits :
            (i = 3 => data_.test # 0) =>
                /\ Len(disk.arr[i]) = ds_len(data_, i)
                /\ fc_data.arr[i] = disk.arr[i]

C8_Witness ==
    /\ fc1.ran
    /\ \E i \in Splits :
          /\ fc1.seen[i] # 0 /\ fc1.seen[i] # ds_len(data_, i)
          /\ i \in fc1.computed

\* C9: whenever precompute is True, fc_data was built from the learner's current
\* raw dataset, so the active data is never features cached from an earlier one.
C9_FcDataFromCurrentData ==
    (phase = "ready" /\ precompute) =>
        /\ fc_data.set /\ fc_data.src = data_
        /\ data(precompute, data_, fc_data).id = data_.id

\* C10: precompute True implies every backbone layer group is untrainable, and
\* save_fc1 only ever executes while precompute is False.
C10_PrecomputeMeansFrozenBackbone ==
    /\ precompute => \A l \in Backbone : ~trainable[l]
    /\ fc1.ran => ~fc1.pre

C10_Witness ==
    /\ Op = "set_data" /\ fc1.ran /\ precompute
    /\ models.lr_cut > 0 /\ models.lr_cut < NLayers

====
